---- MODULE Spec2Model ----
(***************************************************************************)
(* UnixDatagramFramed (src/frame.rs): a Stream + Sink adapter over a       *)
(* non-blocking Unix datagram socket, driven by a UnixDatagramCodec.       *)
(*                                                                         *)
(* The adapter's fields wr, out_addr, rd and codec are the state.  The     *)
(* outcome of each socket call (not ready, I/O error, n bytes) and of each *)
(* encode call (success, or failure after some bytes were appended) is an  *)
(* input of the action that makes the call.                                *)
(***************************************************************************)
EXTENDS Integers, Sequences, FiniteSets, TLC

VARIABLES
    wr,         \* self.wr: the send buffer
    out_addr,   \* self.out_addr: destination of the pending datagram
    rd,         \* self.rd: the receive buffer, always RdCap bytes long
    codec,      \* self.codec: the codec, which encode and decode both borrow
                \* mutably
    inbox,      \* the socket's receive queue, in delivery order
    ev,         \* the last call made on the adapter and what it did
    wrItem,     \* history: the accepted item not yet handed to the socket
    rdFailed,   \* history: some poll has returned a decode error
    alone       \* history: each direction as its calls, with the same socket
                \* and codec outcomes, leave it when the other direction's
                \* calls are not made

vars == <<wr, out_addr, rd, codec, inbox, ev, wrItem, rdFailed, alone>>

-----------------------------------------------------------------------------
(* Bounds of the model *)

\* The largest integer a caller sends (the codec's Out values are 0..MaxVal).
MaxVal == 2
\* Length of the receive buffer; frame.rs:198 allocates 64 * 1024 bytes, the
\* model scales it down so that a datagram longer than the buffer exists.
RdCap == 2
\* Datagrams the socket queues for the adapter at one time.
MaxInbox == 1

Byte == {0, 1}
Base == Cardinality(Byte)

LocalPath == "A"    \* the path the adapter's socket is bound to
PeerPath  == "B"    \* another socket's path
EmptyPath == ""     \* PathBuf::new()
Dests == {LocalPath, PeerPath}

Values == 0 .. MaxVal
Items  == [val : Values, to : Dests]                 \* C::Out
NoItem == [val |-> -1, to |-> EmptyPath]
NoFrame == [val |-> -1, from |-> EmptyPath]          \* Option::None of C::In

Min(a, b) == IF a < b THEN a ELSE b
Take(s, n) == SubSeq(s, 1, Min(n, Len(s)))

RECURSIVE SeqsUpTo(_)
SeqsUpTo(n) ==
    IF n = 0 THEN {<<>>}
    ELSE LET shorter == SeqsUpTo(n - 1)
         IN  shorter \cup {Append(s, b) : s \in {t \in shorter : Len(t) = n - 1}, b \in Byte}

\* Datagrams another socket may send: every byte string up to one byte longer
\* than the receive buffer.
ExtDatagrams == SeqsUpTo(RdCap + 1)

-----------------------------------------------------------------------------
(* The codec: integers as big-endian digits without leading zeros, the     *)
(* source paired with the decoded value.  decode inverts encode.  Two      *)
(* codecs implement the trait here.  The plain one keeps no state and      *)
(* sends each item to the destination the item carries.  The reply one     *)
(* remembers in decode the source of the last frame and sends to it from   *)
(* then on: a state decode writes and encode reads.                        *)

PlainCodec == [kind |-> "plain", last |-> EmptyPath]
ReplyCodec == [kind |-> "reply", last |-> EmptyPath]
Codecs == {PlainCodec, ReplyCodec}

RECURSIVE ToBE(_)
ToBE(v) == IF v = 0 THEN <<>> ELSE Append(ToBE(v \div Base), v % Base)

RECURSIVE FromBE(_)
FromBE(b) ==
    IF b = <<>> THEN 0
    ELSE FromBE(SubSeq(b, 1, Len(b) - 1)) * Base + b[Len(b)]

\* Outcomes of one encode call: success, or an error after the codec has
\* appended the first k bytes of the frame.
EncOutcomes == {[ok |-> TRUE, k |-> 0]} \cup {[ok |-> FALSE, k |-> k] : k \in 0 .. 1}

\* fn encode(&mut self, msg, buf: &mut Vec<u8>) -> io::Result<PathBuf>
\* cdc is the codec before the call, codec the codec after it.
encode(cdc, msg, buf, eo) ==
    LET to == IF cdc.kind = "reply" /\ cdc.last # EmptyPath THEN cdc.last ELSE msg.to
    IN  IF eo.ok
        THEN [ok |-> TRUE,  buf |-> buf \o ToBE(msg.val), addr |-> to, codec |-> cdc]
        ELSE [ok |-> FALSE, buf |-> buf \o Take(ToBE(msg.val), eo.k),
              addr |-> EmptyPath, codec |-> cdc]

\* fn decode(&mut self, src: &SocketAddr, buf: &[u8]) -> io::Result<Self::In>
\* src, buf: the arguments the call was given.
decode(cdc, src, buf) ==
    IF buf # <<>> /\ buf[1] = 0
    THEN [ok |-> FALSE, frame |-> NoFrame, src |-> src, buf |-> buf, codec |-> cdc]
    ELSE [ok |-> TRUE,  frame |-> [val |-> FromBE(buf), from |-> src],
          src |-> src, buf |-> buf,
          codec |-> IF cdc.kind = "reply" THEN [cdc EXCEPT !.last = src] ELSE cdc]

-----------------------------------------------------------------------------
(* The socket *)

NoSend == [res |-> "None", n |-> 0, buf |-> <<>>, addr |-> EmptyPath]
NoEnc  == [called |-> FALSE, buf |-> <<>>]
NoDec  == [called |-> FALSE, src |-> EmptyPath, buf |-> <<>>]

\* Results socket.send_to(buf, addr) can give: not ready, an I/O error, or
\* n bytes written.  With faults = FALSE the socket neither errors nor
\* writes short.  An empty buffer is never sent (frame.rs:121), so only
\* one placeholder is listed for it.
SendOutcomes(buf, faults) ==
    IF buf = <<>> THEN {[res |-> "NotReady", n |-> 0]}
    ELSE {[res |-> "NotReady", n |-> 0], [res |-> "Ok", n |-> Len(buf)]}
         \cup (IF faults
               THEN {[res |-> "Err", n |-> 0]}
                    \cup {[res |-> "Ok", n |-> n] : n \in 0 .. Len(buf)}
               ELSE {})

\* Results socket.recv_from(buf) can give: not ready, an I/O error, or the
\* datagram at the head of the queue.
RecvOutcomes == {"NotReady", "Err", "Ok"}

\* A send to the adapter's own path queues the written bytes on its socket;
\* origin is the accepted item the bytes are the whole encoding of.
Transmit(q, send, origin) ==
    IF send.res = "Ok" /\ send.addr = LocalPath
    THEN Append(q, [bytes  |-> Take(send.buf, send.n),
                    src    |-> LocalPath,
                    origin |-> IF send.n = Len(send.buf) THEN origin ELSE NoItem])
    ELSE q

\* A full queue refuses the datagram: the send cannot complete.
CanSend(so) ==
    so.res = "Ok" /\ wr # <<>> /\ out_addr = LocalPath => Len(inbox) < MaxInbox

\* socket.recv_from(&mut self.rd): the datagram's bytes overwrite the start of
\* the buffer, cut to the buffer's length; the rest of the buffer is kept.
recv_from(buf, dgram) ==
    LET n == Min(Len(dgram.bytes), Len(buf))
    IN  [n   |-> n,
         src |-> dgram.src,
         buf |-> SubSeq(dgram.bytes, 1, n) \o SubSeq(buf, n + 1, Len(buf))]

-----------------------------------------------------------------------------
(* impl Sink for UnixDatagramFramed.  self is [wr, out_addr]; send is the  *)
(* send_to call made, with its result.                                     *)

\* poll_complete with the short-write test left out: any completed send is
\* reported as done.
poll_complete_ignores_short(self, so) ==
    IF self.wr = <<>>
    THEN [self |-> self, ret |-> "Ready", err |-> "none", send |-> NoSend]
    ELSE LET send == [res |-> so.res, n |-> so.n, buf |-> self.wr, addr |-> self.out_addr]
         IN  CASE so.res = "NotReady" ->
                    [self |-> self, ret |-> "NotReady", err |-> "none", send |-> send]
               [] so.res = "Err" ->
                    [self |-> self, ret |-> "Err", err |-> "io", send |-> send]
               [] so.res = "Ok" ->
                    [self |-> [self EXCEPT !.wr = <<>>], ret |-> "Ready",
                     err |-> "none", send |-> send]

\* poll_complete clearing the buffer before the try_ready! of line 125: a
\* send the socket refuses loses the frame.
poll_complete_clears_first(self, so) ==
    IF self.wr = <<>>
    THEN [self |-> self, ret |-> "Ready", err |-> "none", send |-> NoSend]
    ELSE LET send == [res |-> so.res, n |-> so.n, buf |-> self.wr, addr |-> self.out_addr]
             cleared == [self EXCEPT !.wr = <<>>]
         IN  CASE so.res = "NotReady" ->
                    [self |-> cleared, ret |-> "NotReady", err |-> "none", send |-> send]
               [] so.res = "Err" ->
                    [self |-> cleared, ret |-> "Err", err |-> "io", send |-> send]
               [] so.res = "Ok" ->
                    IF so.n = Len(self.wr)
                    THEN [self |-> cleared, ret |-> "Ready", err |-> "none", send |-> send]
                    ELSE [self |-> cleared, ret |-> "Err", err |-> "short", send |-> send]

\* fn poll_complete(&mut self) -> Poll<(), io::Error>
poll_complete(self, so) ==
    IF self.wr = <<>>
    THEN [self |-> self, ret |-> "Ready", err |-> "none", send |-> NoSend]
    ELSE LET send == [res |-> so.res, n |-> so.n, buf |-> self.wr, addr |-> self.out_addr]
         IN  CASE so.res = "NotReady" ->
                    [self |-> self, ret |-> "NotReady", err |-> "none", send |-> send]
               [] so.res = "Err" ->
                    [self |-> self, ret |-> "Err", err |-> "io", send |-> send]
               [] so.res = "Ok" ->
                    LET wrote_all == so.n = Len(self.wr)
                        cleared   == [self EXCEPT !.wr = <<>>]
                    IN  IF wrote_all
                        THEN [self |-> cleared, ret |-> "Ready", err |-> "none", send |-> send]
                        ELSE [self |-> cleared, ret |-> "Err", err |-> "short", send |-> send]

\* The encode step of start_send, on the state pc left by the drain.
\* (frame.rs:114-115)
encode_and_accept(pc, item, eo) ==
    LET e == encode(pc.self.codec, item, pc.self.wr, eo)
        called == [called |-> TRUE, buf |-> pc.self.wr]
    IN  IF e.ok
        THEN [self |-> [wr |-> e.buf, out_addr |-> e.addr, codec |-> e.codec],
              ret |-> "Ready", err |-> "none", back |-> NoItem,
              send |-> pc.send, enc |-> called]
        ELSE [self |-> [wr |-> e.buf, out_addr |-> pc.self.out_addr, codec |-> e.codec],
              ret |-> "Err", err |-> "encode", back |-> NoItem,
              send |-> pc.send, enc |-> called]

NoDrain(self) == [self |-> self, ret |-> "Ready", err |-> "none", send |-> NoSend]

\* start_send without the early return of line 110: a refused drain is
\* followed by the encode all the same.
start_send_fallthrough(self, item, so, eo) ==
    LET pc == IF Len(self.wr) > 0 THEN poll_complete(self, so) ELSE NoDrain(self)
    IN  IF pc.ret = "Err"
        THEN [self |-> pc.self, ret |-> "Err", err |-> pc.err, back |-> NoItem,
              send |-> pc.send, enc |-> NoEnc]
        ELSE encode_and_accept(pc, item, eo)

\* start_send without the drain of lines 107-112: the item is encoded into
\* whatever the buffer holds.
start_send_no_drain(self, item, so, eo) ==
    encode_and_accept(NoDrain(self), item, eo)

\* start_send without the try! of line 108: the result of the drain is
\* dropped and only the length of wr decides.
start_send_ignores_drain_error(self, item, so, eo) ==
    LET pc == IF Len(self.wr) > 0 THEN poll_complete(self, so) ELSE NoDrain(self)
    IN  IF Len(pc.self.wr) > 0
        THEN [self |-> pc.self, ret |-> "NotReady", err |-> "none", back |-> item,
              send |-> pc.send, enc |-> NoEnc]
        ELSE encode_and_accept(pc, item, eo)

\* fn start_send(&mut self, item: C::Out) -> StartSend<C::Out, io::Error>
start_send(self, item, so, eo) ==
    LET pc == IF Len(self.wr) > 0 THEN poll_complete(self, so) ELSE NoDrain(self)
    IN  IF pc.ret = "Err"
        THEN [self |-> pc.self, ret |-> "Err", err |-> pc.err, back |-> NoItem,
              send |-> pc.send, enc |-> NoEnc]
        ELSE IF Len(pc.self.wr) > 0
        THEN [self |-> pc.self, ret |-> "NotReady", err |-> "none", back |-> item,
              send |-> pc.send, enc |-> NoEnc]
        ELSE encode_and_accept(pc, item, eo)

\* close without the try_ready! of line 141: it reports the sink closed
\* whatever the drain returned.
close_reports_done(self, so) ==
    LET pc == poll_complete(self, so)
    IN  [self |-> pc.self, ret |-> "Ready", err |-> "none", send |-> pc.send]

\* fn close(&mut self) -> Poll<(), io::Error>
close(self, so) ==
    LET pc == poll_complete(self, so)
    IN  IF pc.ret = "Ready"
        THEN [self |-> pc.self, ret |-> "Ready", err |-> "none", send |-> pc.send]
        ELSE pc

-----------------------------------------------------------------------------
(* impl futures_sink::Sink for UnixDatagramFramed (feature unstable-futures) *)

\* fn poll_flush(&mut self, cx) -> futures2::Poll<(), io::Error>
\* so is the result of socket.send_to2.
poll_flush(self, so) ==
    IF self.wr = <<>>
    THEN [self |-> self, ret |-> "Ready", err |-> "none", send |-> NoSend]
    ELSE LET send == [res |-> so.res, n |-> so.n, buf |-> self.wr, addr |-> self.out_addr]
         IN  CASE so.res = "NotReady" ->
                    [self |-> self, ret |-> "Pending", err |-> "none", send |-> send]
               [] so.res = "Err" ->
                    [self |-> self, ret |-> "Err", err |-> "io", send |-> send]
               [] so.res = "Ok" ->
                    LET wrote_all == so.n = Len(self.wr)
                        cleared   == [self EXCEPT !.wr = <<>>]
                    IN  IF wrote_all
                        THEN [self |-> cleared, ret |-> "Ready", err |-> "none", send |-> send]
                        ELSE [self |-> cleared, ret |-> "Err", err |-> "short", send |-> send]

\* poll_ready without the return of line 155: ready is reported although the
\* flush left the frame in the buffer.
poll_ready_always_ready(self, so) ==
    IF Len(self.wr) > 0
    THEN LET pf == poll_flush(self, so)
         IN  IF pf.ret = "Err" THEN pf
             ELSE [self |-> pf.self, ret |-> "Ready", err |-> "none", send |-> pf.send]
    ELSE [self |-> self, ret |-> "Ready", err |-> "none", send |-> NoSend]

\* fn poll_ready(&mut self, cx) -> futures2::Poll<(), io::Error>
poll_ready(self, so) ==
    IF Len(self.wr) > 0
    THEN LET pf == poll_flush(self, so)
         IN  IF pf.ret = "Err" THEN pf
             ELSE IF Len(pf.self.wr) > 0
             THEN [self |-> pf.self, ret |-> "Pending", err |-> "none", send |-> pf.send]
             ELSE [self |-> pf.self, ret |-> "Ready", err |-> "none", send |-> pf.send]
    ELSE [self |-> self, ret |-> "Ready", err |-> "none", send |-> NoSend]

\* fn start_send(&mut self, item: Self::SinkItem) -> Result<(), io::Error>
\* of futures_sink::Sink: the encode alone, whatever wr holds.
start_send2(self, item, eo) ==
    LET e == encode(self.codec, item, self.wr, eo)
        called == [called |-> TRUE, buf |-> self.wr]
    IN  IF e.ok
        THEN [self |-> [wr |-> e.buf, out_addr |-> e.addr, codec |-> e.codec],
              ret |-> "Ok", err |-> "none", enc |-> called]
        ELSE [self |-> [wr |-> e.buf, out_addr |-> self.out_addr, codec |-> e.codec],
              ret |-> "Err", err |-> "encode", enc |-> called]

\* fn poll_close(&mut self, cx) -> futures2::Poll<(), io::Error>
poll_close(self, so) == poll_flush(self, so)

-----------------------------------------------------------------------------
(* impl Stream for UnixDatagramFramed *)

\* The decode call d as the last-call record keeps it.
Called(d) == [called |-> TRUE, src |-> d.src, buf |-> d.buf]

\* poll handing decode the whole receive buffer instead of rd[..n].
poll_whole_buffer(cdc, buf, q, ro) ==
    CASE ro = "NotReady" ->
           [rd |-> buf, ret |-> "NotReady", err |-> "none", some |-> FALSE,
            frame |-> NoFrame, dec |-> NoDec, q |-> q, codec |-> cdc]
      [] ro = "Err" ->
           [rd |-> buf, ret |-> "Err", err |-> "io", some |-> FALSE,
            frame |-> NoFrame, dec |-> NoDec, q |-> q, codec |-> cdc]
      [] ro = "Ok" ->
           LET r == recv_from(buf, Head(q))
               d == decode(cdc, r.src, r.buf)
           IN  IF d.ok
               THEN [rd |-> r.buf, ret |-> "Ready", err |-> "none", some |-> TRUE,
                     frame |-> d.frame, dec |-> Called(d), q |-> Tail(q),
                     codec |-> d.codec]
               ELSE [rd |-> r.buf, ret |-> "Err", err |-> "decode", some |-> FALSE,
                     frame |-> NoFrame, dec |-> Called(d), q |-> Tail(q),
                     codec |-> d.codec]

\* poll taking a receive of zero bytes for the end of the stream, as a
\* byte-stream reader would.
poll_eof_on_empty(cdc, buf, q, ro) ==
    CASE ro = "NotReady" ->
           [rd |-> buf, ret |-> "NotReady", err |-> "none", some |-> FALSE,
            frame |-> NoFrame, dec |-> NoDec, q |-> q, codec |-> cdc]
      [] ro = "Err" ->
           [rd |-> buf, ret |-> "Err", err |-> "io", some |-> FALSE,
            frame |-> NoFrame, dec |-> NoDec, q |-> q, codec |-> cdc]
      [] ro = "Ok" ->
           LET r == recv_from(buf, Head(q))
               d == decode(cdc, r.src, SubSeq(r.buf, 1, r.n))
           IN  IF r.n = 0
               THEN [rd |-> r.buf, ret |-> "Ready", err |-> "none", some |-> FALSE,
                     frame |-> NoFrame, dec |-> NoDec, q |-> Tail(q), codec |-> cdc]
               ELSE IF d.ok
               THEN [rd |-> r.buf, ret |-> "Ready", err |-> "none", some |-> TRUE,
                     frame |-> d.frame, dec |-> Called(d), q |-> Tail(q),
                     codec |-> d.codec]
               ELSE [rd |-> r.buf, ret |-> "Err", err |-> "decode", some |-> FALSE,
                     frame |-> NoFrame, dec |-> Called(d), q |-> Tail(q),
                     codec |-> d.codec]

\* poll taking an I/O error of recv_from for not ready: the caller is told
\* to come back and the receive is made again.
poll_retries_on_error(cdc, buf, q, ro) ==
    CASE ro \in {"NotReady", "Err"} ->
           [rd |-> buf, ret |-> "NotReady", err |-> "none", some |-> FALSE,
            frame |-> NoFrame, dec |-> NoDec, q |-> q, codec |-> cdc]
      [] ro = "Ok" ->
           LET r == recv_from(buf, Head(q))
               d == decode(cdc, r.src, SubSeq(r.buf, 1, r.n))
           IN  IF d.ok
               THEN [rd |-> r.buf, ret |-> "Ready", err |-> "none", some |-> TRUE,
                     frame |-> d.frame, dec |-> Called(d), q |-> Tail(q),
                     codec |-> d.codec]
               ELSE [rd |-> r.buf, ret |-> "Err", err |-> "decode", some |-> FALSE,
                     frame |-> NoFrame, dec |-> Called(d), q |-> Tail(q),
                     codec |-> d.codec]

\* poll looping over recv_from while datagrams are queued and decoding the
\* latest: two receives in one call.
poll_keep_latest(cdc, buf, q, ro) ==
    CASE ro = "NotReady" ->
           [rd |-> buf, ret |-> "NotReady", err |-> "none", some |-> FALSE,
            frame |-> NoFrame, dec |-> NoDec, q |-> q, codec |-> cdc]
      [] ro = "Err" ->
           [rd |-> buf, ret |-> "Err", err |-> "io", some |-> FALSE,
            frame |-> NoFrame, dec |-> NoDec, q |-> q, codec |-> cdc]
      [] ro = "Ok" ->
           LET r1 == recv_from(buf, Head(q))
               more == Len(q) > 1
               r == IF more THEN recv_from(r1.buf, q[2]) ELSE r1
               d == decode(cdc, r.src, SubSeq(r.buf, 1, r.n))
               rest == IF more THEN Tail(Tail(q)) ELSE Tail(q)
           IN  IF d.ok
               THEN [rd |-> r.buf, ret |-> "Ready", err |-> "none", some |-> TRUE,
                     frame |-> d.frame, dec |-> Called(d), q |-> rest,
                     codec |-> d.codec]
               ELSE [rd |-> r.buf, ret |-> "Err", err |-> "decode", some |-> FALSE,
                     frame |-> NoFrame, dec |-> Called(d), q |-> rest,
                     codec |-> d.codec]

\* fn poll(&mut self) -> Poll<Option<C::In>, io::Error>
\* cdc is self.codec, q the socket's queue, ro the result of its recv_from;
\* dec is the decode call made, q the queue and codec the codec the call
\* leaves.
poll(cdc, buf, q, ro) ==
    CASE ro = "NotReady" ->
           [rd |-> buf, ret |-> "NotReady", err |-> "none", some |-> FALSE,
            frame |-> NoFrame, dec |-> NoDec, q |-> q, codec |-> cdc]
      [] ro = "Err" ->
           [rd |-> buf, ret |-> "Err", err |-> "io", some |-> FALSE,
            frame |-> NoFrame, dec |-> NoDec, q |-> q, codec |-> cdc]
      [] ro = "Ok" ->
           LET r == recv_from(buf, Head(q))
               d == decode(cdc, r.src, SubSeq(r.buf, 1, r.n))
           IN  IF d.ok
               THEN [rd |-> r.buf, ret |-> "Ready", err |-> "none", some |-> TRUE,
                     frame |-> d.frame, dec |-> Called(d), q |-> Tail(q),
                     codec |-> d.codec]
               ELSE [rd |-> r.buf, ret |-> "Err", err |-> "decode", some |-> FALSE,
                     frame |-> NoFrame, dec |-> Called(d), q |-> Tail(q),
                     codec |-> d.codec]

-----------------------------------------------------------------------------
(* impl futures2::Stream for UnixDatagramFramed (feature unstable-futures) *)

\* fn poll_next(&mut self, cx) -> futures2::Poll<Option<Self::Item>, io::Error>
\* cdc is self.codec, q the socket's queue, ro the result of its recv_from2.
poll_next(cdc, buf, q, ro) ==
    CASE ro = "NotReady" ->
           [rd |-> buf, ret |-> "Pending", err |-> "none", some |-> FALSE,
            frame |-> NoFrame, dec |-> NoDec, q |-> q, codec |-> cdc]
      [] ro = "Err" ->
           [rd |-> buf, ret |-> "Err", err |-> "io", some |-> FALSE,
            frame |-> NoFrame, dec |-> NoDec, q |-> q, codec |-> cdc]
      [] ro = "Ok" ->
           LET r == recv_from(buf, Head(q))
               d == decode(cdc, r.src, SubSeq(r.buf, 1, r.n))
           IN  IF d.ok
               THEN [rd |-> r.buf, ret |-> "Ready", err |-> "none", some |-> TRUE,
                     frame |-> d.frame, dec |-> Called(d), q |-> Tail(q),
                     codec |-> d.codec]
               ELSE [rd |-> r.buf, ret |-> "Err", err |-> "decode", some |-> FALSE,
                     frame |-> NoFrame, dec |-> Called(d), q |-> Tail(q),
                     codec |-> d.codec]

-----------------------------------------------------------------------------
(* The state machine *)

\* ev: op is the method called; ret, err its result; back the item inside
\* AsyncSink::NotReady; some, frame the Option inside Async::Ready of poll;
\* send, recv the result of the socket call made ("None": no call); enc the
\* encode call made and the buffer it was given; dec the decode call made and
\* its arguments.
NoEv == [op |-> "new", ret |-> "Ready", err |-> "none", back |-> NoItem,
         some |-> FALSE, frame |-> NoFrame, send |-> "None", enc |-> NoEnc,
         recv |-> "None", dec |-> NoDec]

\* pub fn new(socket, codec) -> UnixDatagramFramed<C>, given the codec c.
\* alone: sink is the sink's fields and scodec, rd the stream's fields when
\* run alone; ret, err, back, frame the result of the last call when made
\* alone.
InitWith(c) ==
    /\ wr = <<>>
    /\ out_addr = EmptyPath
    /\ rd = [i \in 1 .. RdCap |-> 0]
    /\ codec = c
    /\ inbox = <<>>
    /\ ev = NoEv
    /\ wrItem = NoItem
    /\ rdFailed = FALSE
    /\ alone = [sink |-> [wr |-> <<>>, out_addr |-> EmptyPath, codec |-> c],
                scodec |-> c, rd |-> [i \in 1 .. RdCap |-> 0],
                ret |-> "Ready", err |-> "none", back |-> NoItem, frame |-> NoFrame]

\* The adapter built on the plain codec.
Init == InitWith(PlainCodec)

\* The adapter built on either codec.
InitAnyCodec == \E c \in Codecs : InitWith(c)

Self == [wr |-> wr, out_addr |-> out_addr, codec |-> codec]

\* alone after a sink call that, made alone, gave a; after a stream call that,
\* made alone, gave a.
AloneSink(a, back) ==
    [alone EXCEPT !.sink = a.self, !.ret = a.ret, !.err = a.err, !.back = back,
                  !.frame = NoFrame]
AloneStream(a) ==
    [alone EXCEPT !.scodec = a.codec, !.rd = a.rd, !.ret = a.ret, !.err = a.err,
                  !.back = NoItem, !.frame = a.frame]

\* The accepted item still owed to the socket after a call that made `send`.
Owed(send) == IF send.res = "Ok" THEN NoItem ELSE wrItem

StartSend(item, so, eo) ==
    LET r == start_send(Self, item, so, eo)
    IN  /\ CanSend(so)
        /\ r.enc.called \/ eo.ok       \* the codec's outcome exists only if it is called
        /\ wr' = r.self.wr
        /\ out_addr' = r.self.out_addr
        /\ codec' = r.self.codec
        /\ inbox' = Transmit(inbox, r.send, wrItem)
        /\ wrItem' = IF r.enc.called
                     THEN (IF r.ret = "Ready" THEN item ELSE NoItem)
                     ELSE Owed(r.send)
        /\ ev' = [NoEv EXCEPT !.op = "start_send", !.ret = r.ret, !.err = r.err,
                              !.back = r.back, !.send = r.send.res, !.enc = r.enc]
        /\ alone' = LET a == start_send(alone.sink, item, so, eo)
                    IN  AloneSink(a, a.back)
        /\ UNCHANGED <<rd, rdFailed>>

\* A drain call that gave r, and made alone gives a.
Flush(op, r, a) ==
    /\ wr' = r.self.wr
    /\ out_addr' = r.self.out_addr
    /\ codec' = r.self.codec
    /\ inbox' = Transmit(inbox, r.send, wrItem)
    /\ wrItem' = Owed(r.send)
    /\ ev' = [NoEv EXCEPT !.op = op, !.ret = r.ret, !.err = r.err, !.send = r.send.res]
    /\ alone' = AloneSink(a, NoItem)
    /\ UNCHANGED <<rd, rdFailed>>

PollComplete(so) ==
    CanSend(so) /\ Flush("poll_complete", poll_complete(Self, so), poll_complete(alone.sink, so))

Close(so) ==
    CanSend(so) /\ Flush("close", close(Self, so), close(alone.sink, so))

\* Poll clearing the send buffer, as if poll reset the wrong Vec.
Poll_clears_wr(ro) ==
    LET r == poll(codec, rd, inbox, ro)
    IN  /\ ro = "Ok" => inbox # <<>>
        /\ rd' = r.rd
        /\ codec' = r.codec
        /\ inbox' = r.q
        /\ rdFailed' = (rdFailed \/ r.err = "decode")
        /\ ev' = [NoEv EXCEPT !.op = "poll", !.ret = r.ret, !.err = r.err,
                              !.some = r.some, !.frame = r.frame, !.recv = ro,
                              !.dec = r.dec]
        /\ alone' = AloneStream(poll(alone.scodec, alone.rd, inbox, ro))
        /\ wr' = <<>>
        /\ UNCHANGED <<out_addr, wrItem>>

Poll(ro) ==
    LET r == poll(codec, rd, inbox, ro)
    IN  /\ ro = "Ok" => inbox # <<>>
        /\ rd' = r.rd
        /\ codec' = r.codec
        /\ inbox' = r.q
        /\ rdFailed' = (rdFailed \/ r.err = "decode")
        /\ ev' = [NoEv EXCEPT !.op = "poll", !.ret = r.ret, !.err = r.err,
                              !.some = r.some, !.frame = r.frame, !.recv = ro,
                              !.dec = r.dec]
        /\ alone' = AloneStream(poll(alone.scodec, alone.rd, inbox, ro))
        /\ UNCHANGED <<wr, out_addr, wrItem>>

PollNext(ro) ==
    LET r == poll_next(codec, rd, inbox, ro)
    IN  /\ ro = "Ok" => inbox # <<>>
        /\ rd' = r.rd
        /\ codec' = r.codec
        /\ inbox' = r.q
        /\ rdFailed' = (rdFailed \/ r.err = "decode")
        /\ ev' = [NoEv EXCEPT !.op = "poll_next", !.ret = r.ret, !.err = r.err,
                              !.some = r.some, !.frame = r.frame, !.recv = ro,
                              !.dec = r.dec]
        /\ alone' = AloneStream(poll_next(alone.scodec, alone.rd, inbox, ro))
        /\ UNCHANGED <<wr, out_addr, wrItem>>

PollReady(so) ==
    CanSend(so) /\ Flush("poll_ready", poll_ready(Self, so), poll_ready(alone.sink, so))

\* The caller keeps the contract of futures_sink::Sink: start_send follows a
\* poll_ready that returned Ready.
StartSend2(item, eo) ==
    LET r == start_send2(Self, item, eo)
    IN  /\ ev.op = "poll_ready"
        /\ ev.ret = "Ready"
        /\ wr' = r.self.wr
        /\ out_addr' = r.self.out_addr
        /\ codec' = r.self.codec
        /\ wrItem' = IF r.ret = "Ok" THEN item ELSE NoItem
        /\ ev' = [NoEv EXCEPT !.op = "start_send2", !.ret = r.ret, !.err = r.err,
                              !.enc = r.enc]
        /\ alone' = AloneSink(start_send2(alone.sink, item, eo), NoItem)
        /\ UNCHANGED <<inbox, rd, rdFailed>>

PollFlush(so) ==
    CanSend(so) /\ Flush("poll_flush", poll_flush(Self, so), poll_flush(alone.sink, so))

PollClose(so) ==
    CanSend(so) /\ Flush("poll_close", poll_close(Self, so), poll_close(alone.sink, so))

\* Another socket sends a datagram to the adapter's path.
Deliver(bytes) ==
    /\ Len(inbox) < MaxInbox
    /\ inbox' = Append(inbox, [bytes |-> bytes, src |-> PeerPath, origin |-> NoItem])
    /\ UNCHANGED <<wr, out_addr, rd, codec, ev, wrItem, rdFailed, alone>>

\* The calls of the sink, over a socket that faults (I/O errors, short
\* writes) or not.
SinkNext(faults) ==
    \/ \E item \in Items, so \in SendOutcomes(wr, faults), eo \in EncOutcomes :
          StartSend(item, so, eo)
    \/ \E so \in SendOutcomes(wr, faults) : PollComplete(so)
    \/ \E so \in SendOutcomes(wr, faults) : Close(so)

\* The calls of the stream, through futures 0.1 or 0.2.
StreamNext ==
    \/ \E ro \in RecvOutcomes : Poll(ro)
    \/ \E ro \in RecvOutcomes : PollNext(ro)

Network == \E bytes \in ExtDatagrams : Deliver(bytes)

Next == SinkNext(TRUE) \/ StreamNext \/ Network

Spec == Init /\ [][Next]_vars

\* The calls of the futures 0.2 sink.
Sink2Next(faults) ==
    \/ \E so \in SendOutcomes(wr, faults) : PollReady(so)
    \/ \E item \in Items, eo \in EncOutcomes : StartSend2(item, eo)
    \/ \E so \in SendOutcomes(wr, faults) : PollFlush(so)
    \/ \E so \in SendOutcomes(wr, faults) : PollClose(so)

\* The sink side alone.
NextSink == SinkNext(TRUE)
SpecSink == Init /\ [][NextSink]_vars

\* The sink side through both interfaces, futures 0.1 and 0.2, on one adapter.
NextSink2 == SinkNext(TRUE) \/ Sink2Next(TRUE)
SpecSink2 == Init /\ [][NextSink2]_vars

\* The stream side alone, fed by other sockets.
NextStream == StreamNext \/ Network
SpecStream == Init /\ [][NextStream]_vars

\* The adapter paired with itself over a socket whose sends never error and
\* never write short (they may still be refused as not ready): what it sends
\* to its own path is what it receives.
NextPair == SinkNext(FALSE) \/ StreamNext
SpecPair == Init /\ [][NextPair]_vars

\* The stream side fed bursts: up to MaxBurst datagrams queued back to back,
\* each one fitting the receive buffer and accepted by decode.
MaxBurst == 2
Decodable == {b \in SeqsUpTo(RdCap) : decode(PlainCodec, PeerPath, b).ok}
DeliverBurst(bytes) ==
    /\ Len(inbox) < MaxBurst
    /\ inbox' = Append(inbox, [bytes |-> bytes, src |-> PeerPath, origin |-> NoItem])
    /\ UNCHANGED <<wr, out_addr, rd, codec, ev, wrItem, rdFailed, alone>>
NextBurst == StreamNext \/ \E bytes \in Decodable : DeliverBurst(bytes)
SpecBurst == Init /\ [][NextBurst]_vars

\* The pairing with a caller that keeps draining and a socket that keeps
\* becoming ready: a drain call whose send the socket completes in full is
\* made again and again while it is possible, and the datagrams queued at
\* the adapter's own path are received, so that the path takes more.
DrainCall == \E so \in SendOutcomes(wr, FALSE) : PollComplete(so) \/ Close(so)
DrainOk ==
    /\ wr # <<>>
    /\ \E so \in SendOutcomes(wr, FALSE) :
          so.res = "Ok" /\ (PollComplete(so) \/ Close(so))
SpecDrain ==
    SpecPair /\ WF_vars(DrainCall) /\ SF_vars(DrainOk) /\ WF_vars(Poll("Ok"))

\* The same pairing over a socket that faults: calls of the two directions
\* interleaved in any order, every socket outcome possible.
NextLoop == SinkNext(TRUE) \/ StreamNext
SpecLoop == Init /\ [][NextLoop]_vars

\* Calls of the two directions interleaved in any order over a socket that
\* faults, the adapter built on either codec.
SpecShared == InitAnyCodec /\ [][NextLoop]_vars

-----------------------------------------------------------------------------
(* Properties *)

\* The bytes of exactly one frame: the whole encoding of the accepted item,
\* or what a failed encode left of one item.
OneFrame(buf, item) ==
    IF item # NoItem THEN buf = ToBE(item.val)
    ELSE \E v \in Values : buf = Take(ToBE(v), Len(buf))

\* C1 (backpressure): a start_send made while the send buffer holds bytes and
\* answered not-ready by the socket returns NotReady with the very item it
\* was given, does not call encode, and leaves wr and out_addr as they were.
C1_Backpressure ==
    [][\A item \in Items, so \in SendOutcomes(wr, TRUE), eo \in EncOutcomes :
          (StartSend(item, so, eo) /\ wr # <<>> /\ so.res = "NotReady")
          => /\ ev'.ret = "NotReady"
             /\ ev'.back = item
             /\ ~ev'.enc.called
             /\ wr' = wr
             /\ out_addr' = out_addr]_vars

\* A start_send was refused by the socket and gave its item back.
C1_Witness ==
    /\ ev.op = "start_send"
    /\ ev.ret = "NotReady"
    /\ ev.send = "NotReady"
    /\ ev.back \in Items
    /\ wr # <<>>

\* C2 (single frame in flight): over start_send, poll_complete and close,
\* encode is only ever given an empty buffer; an item is accepted only when
\* the buffer was empty or its bytes were handed to the socket in that call;
\* the buffer holds the bytes of at most one frame; and a non-empty buffer
\* changes only in a call whose send_to took its bytes.
C2_SingleInFlight ==
    [][/\ ev'.enc.called => ev'.enc.buf = <<>>
       /\ (\E item \in Items, so \in SendOutcomes(wr, TRUE), eo \in EncOutcomes :
               StartSend(item, so, eo) /\ ev'.ret = "Ready")
          => (wr = <<>> \/ ev'.send = "Ok")
       /\ OneFrame(wr', wrItem')
       /\ (wr # <<>> /\ wr' # wr) => ev'.send = "Ok"]_vars

\* A second item was offered while the first was still buffered and refused;
\* the buffer still holds the first item's two bytes.
C2_Witness ==
    /\ ev.op = "start_send"
    /\ ev.ret = "NotReady"
    /\ wrItem \in Items
    /\ ev.back # wrItem
    /\ wr = ToBE(wrItem.val)
    /\ Len(wr) = 2

\* C3 (short write): a poll_complete whose send_to returns n bytes clears the
\* send buffer; it fails with the short-write error when n is less than the
\* buffer's length before the send, and reports done when n equals it.
C3_ShortWriteFatal ==
    [][\A so \in SendOutcomes(wr, TRUE) :
          (PollComplete(so) /\ wr # <<>> /\ so.res = "Ok")
          => /\ wr' = <<>>
             /\ IF so.n < Len(wr)
                THEN ev'.ret = "Err" /\ ev'.err = "short"
                ELSE ev'.ret = "Ready"]_vars

\* poll_complete has failed on a short write and left the buffer empty.
C3_Witness ==
    /\ ev.op = "poll_complete"
    /\ ev.ret = "Err"
    /\ ev.err = "short"
    /\ ev.send = "Ok"
    /\ wr = <<>>

\* C4 (decode error is permanent): once a poll has returned a decode error,
\* no later poll calls recv_from or yields a value.
C4_FailedForGood ==
    [][(rdFailed /\ \E ro \in RecvOutcomes : Poll(ro))
          => (ev'.recv = "None" /\ ~ev'.some)]_vars

\* C5 (failed encode commits nothing): after a start_send that returns the
\* codec's encode error the send buffer is empty and out_addr is unchanged.
C5_NoPartialCommit ==
    [][\A item \in Items, so \in SendOutcomes(wr, TRUE), eo \in EncOutcomes :
          (StartSend(item, so, eo) /\ ev'.err = "encode")
          => (wr' = <<>> /\ out_addr' = out_addr)]_vars

\* C6 (buffer cleared after every send attempt): after a poll_complete whose
\* send_to was not answered not-ready (it completed, in full or short, or
\* failed with an I/O error) the send buffer is empty.
C6_ClearedAfterAttempt ==
    (ev.op = "poll_complete" /\ ev.send \in {"Ok", "Err"}) => wr = <<>>

\* C7 (round trip): an accepted item v sent to the adapter's own path, whose
\* encoding fits the receive buffer, comes back as v: the drain call that
\* returns Ready while v is owed queues one datagram on the socket, which
\* decode takes to v paired with the sender's path; and a poll that receives
\* the complete send of v yields v paired with the sender's path.
C7_RoundTrip ==
    [][/\ (/\ ev'.op \in {"poll_complete", "close"}
           /\ ev'.ret = "Ready"
           /\ wrItem # NoItem
           /\ wrItem.to = LocalPath
           /\ Len(ToBE(wrItem.val)) <= RdCap)
          => /\ Len(inbox') = Len(inbox) + 1
             /\ LET g == inbox'[Len(inbox')]
                IN  decode(codec, g.src, Take(g.bytes, RdCap)).frame
                       = [val |-> wrItem.val, from |-> LocalPath]
       /\ (/\ inbox # <<>>
           /\ Head(inbox).origin # NoItem
           /\ Len(ToBE(Head(inbox).origin.val)) <= RdCap
           /\ Poll("Ok"))
          => /\ ev'.ret = "Ready"
             /\ ev'.some
             /\ ev'.frame = [val |-> Head(inbox).origin.val, from |-> LocalPath]]_vars

\* C8 (send order, no loss, no duplicate): over a socket that never errors
\* nor writes short, every completed send hands over exactly the encoding of
\* the accepted item still owed, to that item's destination, and an item is
\* accepted only when no earlier accepted item is still owed to the socket.
C8_SendOrder ==
    [][SinkNext(FALSE)
          => /\ ev'.send = "Ok"
                => (wrItem # NoItem /\ wr = ToBE(wrItem.val) /\ out_addr = wrItem.to)
             /\ (ev'.op = "start_send" /\ ev'.ret = "Ready")
                => (wrItem = NoItem \/ ev'.send = "Ok")]_vars

\* C9 (destination belongs to the buffered bytes): whenever the send buffer
\* is non-empty, out_addr is the address encode returned for exactly those
\* bytes; and out_addr changes only when start_send accepts an item.
C9_DestOfFrame ==
    [][/\ wr' # <<>>
          => (wrItem' # NoItem /\ wr' = ToBE(wrItem'.val) /\ out_addr' = wrItem'.to)
       /\ out_addr' # out_addr
          => (ev'.op = "start_send" /\ ev'.ret = "Ready")]_vars

\* C10 (the stream never ends): poll returns NotReady, an error, or
\* Ready(Some(frame)); never Ready(None).  The same of poll_next, with
\* Pending for NotReady.
C10_NeverEnds ==
    ev.op \in {"poll", "poll_next"} =>
        \/ ev.ret \in {"NotReady", "Pending"}
        \/ ev.ret = "Err"
        \/ ev.ret = "Ready" /\ ev.some /\ ev.frame # NoFrame

\* poll has received a datagram of zero bytes and yielded its value.
C10_Witness ==
    /\ ev.op = "poll"
    /\ ev.recv = "Ok"
    /\ ev.ret = "Ready"
    /\ ev.some
    /\ ev.frame.val = 0

\* C11 (close is poll_complete): a close call returns what poll_complete
\* returns from the same state under the same socket outcome, leaves the
\* same wr and out_addr, and makes the same single socket call or none.
C11_CloseIsPollComplete ==
    [][\A so \in SendOutcomes(wr, TRUE) :
          Close(so)
          => LET pc == poll_complete(Self, so)
             IN  /\ ev'.ret = pc.ret
                 /\ ev'.err = pc.err
                 /\ ev'.send = pc.send.res
                 /\ wr' = pc.self.wr
                 /\ out_addr' = pc.self.out_addr]_vars

\* close has been refused by the socket and left the frame in the buffer.
C11_Witness ==
    /\ ev.op = "close"
    /\ ev.ret = "NotReady"
    /\ ev.send = "NotReady"
    /\ wr # <<>>

\* C12 (no accepted item is dropped): poll_complete or close returns Ready
\* without a socket send only when no accepted item is still owed to the
\* socket, whatever the length of the item's encoding.
C12_NoSilentDrop ==
    [][(ev'.op \in {"poll_complete", "close"} /\ ev'.ret = "Ready" /\ ev'.send = "None")
          => wrItem = NoItem]_vars

\* C13 (not ready changes nothing): a poll whose receive is not ready
\* returns NotReady without calling decode and leaves rd, wr and out_addr
\* as they were; a poll_complete whose send is not ready returns NotReady
\* and leaves wr and out_addr as they were.  Neither changes the codec.
C13_NotReadyNoChange ==
    [][/\ Poll("NotReady")
          => /\ ev'.ret = "NotReady"
             /\ ~ev'.dec.called
             /\ codec' = codec
             /\ rd' = rd
             /\ wr' = wr
             /\ out_addr' = out_addr
       /\ \A so \in SendOutcomes(wr, TRUE) :
             (wr # <<>> /\ so.res = "NotReady" /\ PollComplete(so))
             => /\ ev'.ret = "NotReady"
                /\ ev'.send = "NotReady"
                /\ codec' = codec
                /\ wr' = wr
                /\ out_addr' = out_addr]_vars

\* poll_complete has been refused by the socket with a frame in the buffer.
C13_Witness ==
    /\ ev.op = "poll_complete"
    /\ ev.ret = "NotReady"
    /\ ev.send = "NotReady"
    /\ wr # <<>>
    /\ wrItem # NoItem

\* C14 (no queueing on receive): a poll whose receive succeeds takes exactly
\* the oldest queued datagram off the socket, leaves the later ones queued in
\* their order, calls decode once and yields that datagram's value; a poll
\* whose receive does not succeed takes nothing and does not call decode.
\* So k datagrams queued back to back, each accepted by decode, are yielded
\* by k successive polls in the order of delivery.
C14_OnePerPoll ==
    [][\A ro \in RecvOutcomes :
          Poll(ro)
          => IF ro = "Ok"
             THEN /\ inbox' = Tail(inbox)
                  /\ ev'.dec.called
                  /\ ev'.ret = "Ready"
                  /\ ev'.some
                  /\ ev'.frame = [val |-> FromBE(Head(inbox).bytes),
                                  from |-> Head(inbox).src]
             ELSE /\ inbox' = inbox
                  /\ ~ev'.dec.called]_vars

\* poll has yielded a value while a datagram of a different value is queued
\* behind it.
C14_Witness ==
    /\ ev.op = "poll"
    /\ ev.ret = "Ready"
    /\ ev.some
    /\ Len(inbox) = 1
    /\ FromBE(Head(inbox).bytes) # ev.frame.val

\* C15 (decode sees exactly the received datagram): on a receive of n bytes
\* from src, decode is called with src and the first n bytes of rd, which
\* are the first n bytes of the datagram, n being its length cut to the
\* capacity of rd; bytes an earlier, longer datagram left behind in rd are
\* not passed.
C15_DecodeArgs ==
    [][Poll("Ok")
          => LET g == Head(inbox)
                 n == Min(Len(g.bytes), RdCap)
             IN  /\ ev'.dec = [called |-> TRUE, src |-> g.src, buf |-> Take(g.bytes, n)]
                 /\ ev'.dec.buf = SubSeq(rd', 1, n)
                 /\ \A i \in n + 1 .. RdCap : rd'[i] = rd[i]]_vars

\* decode has been called with a datagram shorter than rd while rd still
\* holds, past the datagram, a byte of an earlier one.
C15_Witness ==
    /\ ev.op = "poll"
    /\ ev.dec.called
    /\ Len(ev.dec.buf) < RdCap
    /\ \E i \in Len(ev.dec.buf) + 1 .. RdCap : rd[i] = 1

\* The liveness half of C16: bytes in the send buffer lead to a drain call
\* that returns Ready and leaves the buffer empty.
Drains ==
    (wr # <<>>) ~> (ev.op \in {"poll_complete", "close"} /\ ev.ret = "Ready" /\ wr = <<>>)

\* C16 (drain liveness): with a caller that keeps draining and a socket that
\* keeps becoming ready, a pending frame leads to a drain call that returns
\* Ready with wr empty; and while no item accepted by start_send is owed to
\* the socket, poll_complete returns Ready without a socket send.
C16_DrainLiveness ==
    /\ Drains
    /\ [][\A so \in SendOutcomes(wr, FALSE) :
             (PollComplete(so) /\ wrItem = NoItem)
             => (ev'.ret = "Ready" /\ ev'.send = "None")]_vars

\* C17 (socket errors are passed on at once): a poll whose receive fails
\* with an I/O error returns that error without calling decode; a
\* poll_complete, close or start_send whose send fails with an I/O error
\* returns that error, having made that one socket call and, in start_send,
\* no encode call.
C17_ErrorsPropagate ==
    [][/\ Poll("Err")
          => /\ ev'.ret = "Err"
             /\ ev'.err = "io"
             /\ ev'.recv = "Err"
             /\ ~ev'.dec.called
             /\ inbox' = inbox
       /\ \A so \in SendOutcomes(wr, TRUE) :
             (/\ wr # <<>>
              /\ so.res = "Err"
              /\ \/ PollComplete(so)
                 \/ Close(so)
                 \/ \E item \in Items, eo \in EncOutcomes : StartSend(item, so, eo))
             => /\ ev'.ret = "Err"
                /\ ev'.err = "io"
                /\ ev'.send = "Err"
                /\ ~ev'.enc.called
                /\ ev'.back = NoItem
                /\ inbox' = inbox]_vars

\* poll has returned the I/O error of its receive while a datagram was
\* queued.
C17_Witness ==
    /\ ev.op = "poll"
    /\ ev.ret = "Err"
    /\ ev.err = "io"
    /\ inbox # <<>>

\* C18 (the three exits of start_send): start_send returns the error of its
\* drain, or NotReady with the item, or goes on to encode.  encode is called
\* exactly when the drain did not fail and the send buffer is empty where
\* its length is tested (it was empty, or the drain emptied it), and then on
\* that empty buffer.  When the drain fails, by a short write or an I/O
\* error, start_send returns that error, encode is not called, the item is
\* not handed back, and out_addr is as it was.
C18_StartSendExits ==
    [][\A item \in Items, so \in SendOutcomes(wr, TRUE), eo \in EncOutcomes :
          StartSend(item, so, eo)
          => LET short  == wr # <<>> /\ so.res = "Ok" /\ so.n # Len(wr)
                 ioerr  == wr # <<>> /\ so.res = "Err"
                 failed == short \/ ioerr
                 empty  == wr = <<>> \/ so.res = "Ok"
             IN  /\ ev'.ret \in {"Ready", "NotReady", "Err"}
                 /\ ev'.enc.called <=> (~failed /\ empty)
                 /\ ev'.enc.called => ev'.enc.buf = <<>>
                 /\ ev'.ret = "Ready" => (ev'.enc.called /\ ev'.back = NoItem)
                 /\ ev'.ret = "NotReady"
                    => /\ ~ev'.enc.called
                       /\ ev'.back = item
                       /\ wr' = wr
                       /\ out_addr' = out_addr
                 /\ failed
                    => /\ ev'.ret = "Err"
                       /\ ev'.err = (IF ioerr THEN "io" ELSE "short")
                       /\ ~ev'.enc.called
                       /\ ev'.back = NoItem
                       /\ out_addr' = out_addr]_vars

\* start_send has returned the short-write error of its drain: the old
\* frame is gone from the buffer and the new item was not encoded.
C18_Witness ==
    /\ ev.op = "start_send"
    /\ ev.ret = "Err"
    /\ ev.err = "short"
    /\ ~ev.enc.called
    /\ wr = <<>>

\* What a direction's calls do to the other direction's fields: a step that
\* changes wr, out_addr or the item owed is a call of the sink and leaves rd
\* as it was; a step that changes rd is a call of the stream and leaves wr
\* and out_addr as they were.
SinkOps == {"start_send", "poll_complete", "close"}
StreamOps == {"poll", "poll_next"}
Disjoint ==
    /\ <<wr, out_addr, wrItem>>' # <<wr, out_addr, wrItem>>
       => (ev'.op \in SinkOps /\ rd' = rd /\ rdFailed' = rdFailed)
    /\ <<rd, rdFailed>>' # <<rd, rdFailed>>
       => (ev'.op \in StreamOps /\ wr' = wr /\ out_addr' = out_addr /\ wrItem' = wrItem)
    /\ ev'.op \in StreamOps => (wr' = wr /\ out_addr' = out_addr)
    /\ ev'.op \in SinkOps => rd' = rd

\* The buffers and the result of the last call are those of the direction
\* run alone on the same socket and codec outcomes.
SameBuffers ==
    /\ wr = alone.sink.wr
    /\ rd = alone.rd
    /\ ev.ret = alone.ret
    /\ ev.err = alone.err
    /\ ev.back = alone.back
    /\ ev.frame = alone.frame

As01(ret) ==
    CASE ret = "Pending" -> "NotReady"
      [] ret = "Ok" -> "Ready"
      [] OTHER -> ret

\* C20 (the two generations agree): from every state and for every socket
\* and codec outcome, start_send of futures 0.1 rejects exactly when
\* poll_ready returns Pending, returns a drain error exactly when poll_ready
\* returns it, and otherwise does what poll_ready followed by the newer
\* start_send does: same result, same wr and out_addr, same socket call,
\* same encode call (so that, the encode succeeding, it accepts exactly when
\* poll_ready returns Ready).  poll_flush and poll_close return the result
\* and leave the state of poll_complete and close.  A newer start_send made
\* right after a poll_ready that returned Ready calls encode on an empty wr.
C20_GenerationsAgree ==
    /\ [](/\ \A item \in Items, so \in SendOutcomes(wr, TRUE), eo \in EncOutcomes :
                LET old == start_send(Self, item, so, eo)
                    pr  == poll_ready(Self, so)
                IN  /\ old.ret = "NotReady" <=> pr.ret = "Pending"
                    /\ eo.ok => (old.ret = "Ready" <=> pr.ret = "Ready")
                    /\ pr.send = old.send
                    /\ pr.ret \in {"Pending", "Err"}
                       => /\ old.ret = As01(pr.ret)
                          /\ old.err = pr.err
                          /\ old.self = pr.self
                          /\ ~old.enc.called
                    /\ pr.ret = "Ready"
                       => LET new == start_send2(pr.self, item, eo)
                          IN  /\ old.ret = As01(new.ret)
                              /\ old.err = new.err
                              /\ old.self = new.self
                              /\ old.enc = new.enc
          /\ \A so \in SendOutcomes(wr, TRUE) :
                LET pf == poll_flush(Self, so)
                    pc == poll_close(Self, so)
                IN  /\ [pf EXCEPT !.ret = As01(@)] = poll_complete(Self, so)
                    /\ [pc EXCEPT !.ret = As01(@)] = close(Self, so))
    /\ [][\A item \in Items, eo \in EncOutcomes :
             StartSend2(item, eo) => (ev'.enc.called /\ ev'.enc.buf = <<>>)]_vars

\* The newer start_send has accepted an item after a poll_ready that
\* returned Ready: the item's frame is in the send buffer.
C20_Witness ==
    /\ ev.op = "start_send2"
    /\ ev.ret = "Ok"
    /\ ev.enc.buf = <<>>
    /\ wr # <<>>
    /\ wrItem # NoItem

====
